---- MODULE Spec2Model ----
(***************************************************************************)
(* SmartQGen web client: the quiz session state machine of src/src/App.tsx *)
(* with the components it mounts (FileUpload, QuestionGenerator,           *)
(* QuizInterface) and the requests they keep in flight.                    *)
(*                                                                         *)
(* React component state lives only while the component is mounted: a      *)
(* component that is not mounted holds the values its useState calls would *)
(* give it at the next mount.  A handler runs to its next `await` as one   *)
(* step; the continuation after the `await` is the step that consumes the  *)
(* reply from `inflight`.                                                  *)
(***************************************************************************)
EXTENDS Integers, Sequences, FiniteSets, Bags, TLC

\* ------------------------------------------------------------------ bounds
\* Longest question list the generation service delivers.
MaxQuestions == 2
\* Number of requests (upload, generate, submit) issued in one run.
MaxRequests == 3

\* ------------------------------------------------------------- null values
\* JavaScript null for string-valued state (error messages).
NullStr == "null"
\* JavaScript null for object-valued state (File, QuizResult).
NullObj == [null |-> TRUE]
\* JavaScript null for boolean-valued state (backendStatus); true and
\* false are "true" and "false".
NullBool == "null"
\* The empty string '' of the identifiers fileId and sessionId.
EmptyId == 0
\* JavaScript null for expandedQuestion (question ids are tuples).
NullQuestion == << >>
\* The empty string '' of fileName (names are sequences of characters).
EmptyName == << >>

\* ------------------------------------------------------------------- files
MB == 1024 * 1024

\* Files the user may pick or drop.
Files ==
  { [name |-> <<"a", ".", "p", "d", "f">>, size |-> 2 * MB],
    [name |-> <<"a", ".", "p", "d", "f">>, size |-> 12 * MB],
    [name |-> <<"a", ".", "p", "d", "f">>, size |-> 10 * MB + 1],
    [name |-> <<"B", ".", "T", "X", "T">>, size |-> 10 * MB],
    [name |-> <<"a", ".", "e", "x", "e">>, size |-> 1024],
    [name |-> <<"p", "d", "f">>, size |-> 1024],
    [name |-> <<"R", "E", "A", "D", "M", "E">>, size |-> 1024] }

\* String.prototype.toLowerCase on one character.
LowerChar(c) ==
  CASE c = "B" -> "b"
    [] c = "T" -> "t"
    [] c = "X" -> "x"
    [] c = "R" -> "r"
    [] c = "E" -> "e"
    [] c = "A" -> "a"
    [] c = "D" -> "d"
    [] c = "M" -> "m"
    [] OTHER -> c

ToLowerCase(s) == [i \in 1..Len(s) |-> LowerChar(s[i])]

\* name.split('.').pop(): the text after the last '.', the whole name when
\* it holds no '.'.
SplitPop(s) ==
  LET dots == {i \in 1..Len(s) : s[i] = "."}
      last == IF dots = {} THEN 0 ELSE CHOOSE i \in dots : \A j \in dots : j <= i
  IN SubSeq(s, last + 1, Len(s))

\* Mutant: the extension as typed, without toLowerCase.
FileExtAsTyped(file) == <<".">> \o SplitPop(file.name)

\* fileExt = '.' + file.name.split('.').pop()?.toLowerCase()
FileExt(file) == <<".">> \o ToLowerCase(SplitPop(file.name))

allowedTypes == { <<".", "p", "d", "f">>, <<".", "d", "o", "c", "x">>, <<".", "t", "x", "t">> }

MaxFileSize == 10 * MB

TypeError == "Please upload a PDF, DOCX, or TXT file"
SizeError == "File size must be less than 10MB"

\* Mutant: the size test with >= in place of >.
ValidationErrorAtLimit(file) ==
  IF FileExt(file) \notin allowedTypes THEN TypeError
  ELSE IF file.size >= MaxFileSize THEN SizeError
  ELSE NullStr

\* The error validateAndSetFile sets for a file, NullStr when it accepts it.
ValidationError(file) ==
  IF FileExt(file) \notin allowedTypes THEN TypeError
  ELSE IF file.size > MaxFileSize THEN SizeError
  ELSE NullStr

\* `percentage` is a number: it is held in thousandths of a percent, so
\* that 92.999 is 92999.
Thousandths == 1000

\* ------------------------------------------------------------------ quiz
\* The option labels the Take screen offers: ["A", "B", "C", "D"].
Options == {"A", "B", "C", "D"}

\* The option buttons the modelled user clicks.
Picks == {"A", "B"}

\* A JavaScript value used as a condition: '' and undefined are falsy.
Truthy(map, key) == key \in DOMAIN map /\ map[key] # ""

\* Mutant: the filter keeps the answered questions (a dropped `!`).
UnansweredCountsAnswered(qs, ans) == {i \in 1..Len(qs) : Truthy(ans, qs[i])}

\* questions.filter((q) => !answers[q.id])
Unanswered(qs, ans) == {i \in 1..Len(qs) : ~Truthy(ans, qs[i])}

\* Object.keys(answers).length
answeredCount(ans) == Cardinality(DOMAIN ans)

\* Mutant: a click on the selected option takes the answer back.
SetAnswerToggles(prev, questionId, answer) ==
  IF questionId \in DOMAIN prev /\ prev[questionId] = answer
    THEN [k \in DOMAIN prev \ {questionId} |-> prev[k]]
    ELSE [k \in DOMAIN prev \cup {questionId} |-> IF k = questionId THEN answer ELSE prev[k]]

\* Mutant: setAnswers({ [questionId]: option }), without the spread of prev.
SetAnswerDropsPrev(map, key, value) == key :> value

\* { ...prev, [questionId]: answer }
SetAnswer(prev, questionId, answer) ==
  [k \in DOMAIN prev \cup {questionId} |-> IF k = questionId THEN answer ELSE prev[k]]

\* JSON.stringify of a Record<string, string>: its key/value members.
JsonStringify(map) == {<<k, map[k]>> : k \in DOMAIN map}

\* The object a JSON text of key/value members denotes.
JsonParse(members) ==
  [k \in {m[1] : m \in members} |-> (CHOOSE m \in members : m[1] = k)[2]]

\* The empty object {}.
EmptyMap == [k \in {} |-> ""]

\* The question list the generation service delivers for a session: n
\* questions with identities unique to the session.
QuestionSet(sid, n) == [i \in 1..n |-> <<sid, i>>]

VARIABLES
  state,            \* App: 'upload' | 'generate' | 'quiz' | 'results'
  fileId,           \* App
  fileName,         \* App
  questions,        \* App: sequence of question ids
  sessionId,        \* App
  results,          \* App: QuizResult | null
  error,            \* App: string | null
  selectedFile,     \* FileUpload
  isUploading,      \* FileUpload
  uploadError,      \* FileUpload: its own error
  isGenerating,     \* QuestionGenerator
  generateError,    \* QuestionGenerator: its own error
  currentQuestion,  \* QuizInterface
  answers,          \* QuizInterface
  exporting,        \* QuizInterface
  isExporting,      \* ResultsDisplay
  expandedQuestion, \* ResultsDisplay: question id | null
  backendStatus,    \* App: boolean | null
  inflight,         \* bag of requests awaiting their reply
  nextFileId,       \* upload service: next file_id it assigns
  nextSessionId,    \* generation service: next session_id it assigns
  requests,         \* upload, generate and submit requests counted against MaxRequests
  crashed,          \* a render threw: React has unmounted the whole tree
  event             \* the handler that ran last, with what it showed, sent or received

appVars == <<state, fileId, fileName, questions, sessionId, results, error>>
uploadVars == <<selectedFile, isUploading, uploadError>>
generatorVars == <<isGenerating, generateError>>
quizVars == <<currentQuestion, answers, exporting>>
resultsVars == <<isExporting, expandedQuestion>>
serverVars == <<nextFileId, nextSessionId, requests>>
vars == <<appVars, backendStatus, uploadVars, generatorVars, quizVars, resultsVars,
          inflight, serverVars, crashed, event>>

\* ---------------------------------------------------------------- network
\* Replies of a collaborator: a 2xx with a body, a 2xx with an empty body, a
\* non-2xx with and without a `detail`, and a failed fetch.
Replies == {"ok", "okNoData", "detail", "noDetail", "network"}

\* Text the environment supplies: the `detail` of an error body, the message
\* of the Error a failed fetch rejects with.
ServerDetail == "environment text"
NetworkMessage == "environment text"
\* The TypeError of reading a field of a null body (data.file_id).
NullBodyMessage == "Cannot read properties of null"
\* The SyntaxError response.json() rejects with on a body that is not JSON.
ParseMessage == "Unexpected token"

\* The message of the Error a request ends with, per reply, given the
\* operation's fallback string: throw new Error(data.detail || fallback),
\* or the Error fetch rejects with.
ThrownMessage(reply, fallback) ==
  CASE reply = "detail" -> ServerDetail
    [] reply = "noDetail" -> fallback
    [] reply = "okNoData" -> NullBodyMessage
    [] reply = "badBody" -> ParseMessage
    [] OTHER -> NetworkMessage

Send(m) == inflight (+) SetToBag({m})
Receive(m) == inflight (-) SetToBag({m})
Outstanding == BagCardinality(inflight)
Pending(kind) == {m \in BagToSet(inflight) : m.kind = kind}

\* A request whose component has unmounted: the setState calls of its
\* continuation no longer reach any mounted state.
Kill(m, comp) == IF m.from = comp THEN [m EXCEPT !.live = FALSE] ELSE m

Orphaned(B, comp) ==
  LET T == {Kill(m, comp) : m \in BagToSet(B)}
  IN [t \in T |->
        CopiesIn(t, B)
        + (IF t.from = comp /\ ~t.live THEN CopiesIn([t EXCEPT !.live = TRUE], B) ELSE 0)]

\* The requests in flight after the App moves to phase ns: the component of
\* the phase it leaves unmounts.
InflightAfter(B, ns) == IF ns = state THEN B ELSE Orphaned(B, state)

\* --------------------------------------------------- mounting of components
\* useState initial values, FileUpload.tsx 9-12.
UploadInit ==
  /\ selectedFile' = NullObj
  /\ isUploading' = FALSE
  /\ uploadError' = NullStr

\* useState initial values of QuestionGenerator.
GeneratorInit ==
  /\ isGenerating' = FALSE
  /\ generateError' = NullStr

\* useState initial values, QuizInterface.tsx 22-25.
QuizInit ==
  /\ currentQuestion' = 0
  /\ answers' = EmptyMap
  /\ exporting' = FALSE

\* useState initial values of ResultsDisplay.
ResultsInit ==
  /\ isExporting' = FALSE
  /\ expandedQuestion' = NullQuestion

\* App.tsx 147-175: exactly the component of the phase is mounted.  A
\* component that stays mounted keeps its state, one that mounts starts
\* from its initial values.
UploadAfter(ns) ==
  IF ns = "upload" /\ state = "upload" THEN UNCHANGED uploadVars ELSE UploadInit

GeneratorAfter(ns) ==
  IF ns = "generate" /\ state = "generate" THEN UNCHANGED generatorVars ELSE GeneratorInit

\* Mutant: the answers and the cursor outlive the Take screen (state kept
\* above the component and never reset).
QuizAfterKeepsState(ns) == UNCHANGED quizVars

QuizAfter(ns) ==
  IF ns = "quiz" /\ state = "quiz" THEN UNCHANGED quizVars ELSE QuizInit

\* App.tsx 165-175: ResultsDisplay is mounted in the Results phase.
ResultsAfter(ns) ==
  IF ns = "results" /\ state = "results" THEN UNCHANGED resultsVars ELSE ResultsInit

\* QuizInterface.tsx 91, 155: question = questions[currentQuestion] is
\* dereferenced in render; undefined there throws.
RenderThrows(ns, qs, cur) == ns = "quiz" /\ ~(cur \in 0..(Len(qs) - 1))

Init ==
  /\ state = "upload"
  /\ fileId = EmptyId
  /\ fileName = EmptyName
  /\ questions = << >>
  /\ sessionId = EmptyId
  /\ results = NullObj
  /\ error = NullStr
  /\ selectedFile = NullObj
  /\ isUploading = FALSE
  /\ uploadError = NullStr
  /\ isGenerating = FALSE
  /\ generateError = NullStr
  /\ currentQuestion = 0
  /\ answers = EmptyMap
  /\ exporting = FALSE
  /\ isExporting = FALSE
  /\ expandedQuestion = NullQuestion
  /\ backendStatus = NullBool
  /\ inflight = EmptyBag
  /\ nextFileId = 1
  /\ nextSessionId = 1
  /\ requests = 0
  /\ crashed = FALSE
  /\ event = [op |-> "init"]

\* ------------------------------------------------------------- FileUpload
\* Mutant: a rejected file takes the selection away.
ValidateAndSetFileDropsSelection(file) ==
  /\ ~crashed /\ state = "upload" /\ ~isUploading
  /\ IF ValidationError(file) # NullStr
       THEN /\ uploadError' = ValidationError(file)
            /\ selectedFile' = NullObj
       ELSE /\ uploadError' = NullStr
            /\ selectedFile' = file
  /\ event' = [op |-> "validateAndSetFile", file |-> file]
  /\ UNCHANGED <<appVars, isUploading, generatorVars, quizVars, resultsVars, inflight,
                 serverVars, crashed>>
  /\ UNCHANGED backendStatus

\* handleDrop / handleFileInput -> validateAndSetFile(file)
ValidateAndSetFile(file) ==
  /\ ~crashed /\ state = "upload" /\ ~isUploading
  /\ IF ValidationError(file) # NullStr
       THEN /\ uploadError' = ValidationError(file)
            /\ UNCHANGED selectedFile
       ELSE /\ uploadError' = NullStr
            /\ selectedFile' = file
  /\ event' = [op |-> "validateAndSetFile", file |-> file]
  /\ UNCHANGED <<appVars, isUploading, generatorVars, quizVars, resultsVars, inflight,
                 serverVars, crashed>>
  /\ UNCHANGED backendStatus

\* Cancel button: setSelectedFile(null)
CancelFile ==
  /\ ~crashed /\ state = "upload" /\ ~isUploading
  /\ selectedFile # NullObj
  /\ selectedFile' = NullObj
  /\ event' = [op |-> "local"]
  /\ UNCHANGED <<appVars, isUploading, uploadError, generatorVars, quizVars, resultsVars, inflight,
                 serverVars, crashed>>
  /\ UNCHANGED backendStatus

\* Mutant: the Upload button is dead while the backend is reported down.
HandleUploadNeedsBackend ==
  /\ ~crashed /\ state = "upload" /\ ~isUploading
  /\ backendStatus # "false"
  /\ selectedFile # NullObj
  /\ requests < MaxRequests
  /\ requests' = requests + 1
  /\ isUploading' = TRUE
  /\ uploadError' = NullStr
  /\ inflight' = Send([kind |-> "upload", from |-> "upload", live |-> TRUE,
                       file |-> selectedFile])
  /\ event' = [op |-> "handleUpload"]
  /\ UNCHANGED <<appVars, selectedFile, generatorVars, quizVars, resultsVars, nextFileId,
                 nextSessionId, crashed>>
  /\ UNCHANGED backendStatus

\* handleUpload up to its fetch.
HandleUpload ==
  /\ ~crashed /\ state = "upload" /\ ~isUploading
  /\ selectedFile # NullObj
  /\ requests < MaxRequests
  /\ requests' = requests + 1
  /\ isUploading' = TRUE
  /\ uploadError' = NullStr
  /\ inflight' = Send([kind |-> "upload", from |-> "upload", live |-> TRUE,
                       file |-> selectedFile])
  /\ event' = [op |-> "handleUpload"]
  /\ UNCHANGED <<appVars, selectedFile, generatorVars, quizVars, resultsVars, nextFileId,
                 nextSessionId, crashed>>
  /\ UNCHANGED backendStatus

\* Mutant: setFileName is forgotten.
HandleFileUploadedKeepsName(id, name, B) ==
  /\ fileId' = id
  /\ state' = "generate"
  /\ error' = NullStr
  /\ UNCHANGED <<fileName, questions, sessionId, results>>
  /\ UploadAfter("generate")
  /\ GeneratorAfter("generate")
  /\ QuizAfter("generate")
  /\ ResultsAfter("generate")
  /\ inflight' = InflightAfter(B, "generate")
  /\ crashed' = FALSE

\* handleFileUploaded(id, name), with the mounting it causes.
HandleFileUploaded(id, name, B) ==
  /\ fileId' = id
  /\ fileName' = name
  /\ state' = "generate"
  /\ error' = NullStr
  /\ UNCHANGED <<questions, sessionId, results>>
  /\ UploadAfter("generate")
  /\ GeneratorAfter("generate")
  /\ QuizAfter("generate")
  /\ ResultsAfter("generate")
  /\ inflight' = InflightAfter(B, "generate")
  /\ crashed' = FALSE

\* Mutant: the catch block of handleUpload posts the file again.
UploadResponseRetries(m, reply) ==
  /\ ~crashed
  /\ m \in Pending("upload")
  /\ IF reply = "ok"
       THEN /\ nextFileId' = nextFileId + 1
            /\ HandleFileUploaded(nextFileId, m.file.name, Receive(m))
            /\ event' = [op |-> "uploadResponse", ok |-> TRUE, file |-> m.file,
                         file_id |-> nextFileId, file_name |-> m.file.name]
            /\ UNCHANGED <<nextSessionId, requests>>
       ELSE /\ uploadError' = ThrownMessage(reply, "Upload failed")
            /\ UNCHANGED <<selectedFile, isUploading, inflight>>
            /\ event' = [op |-> "uploadResponse", ok |-> FALSE]
            /\ UNCHANGED <<appVars, generatorVars, quizVars, resultsVars, serverVars, crashed>>
  /\ UNCHANGED backendStatus

\* handleUpload from the reply of its fetch on.
UploadResponse(m, reply) ==
  /\ ~crashed
  /\ m \in Pending("upload")
  /\ IF reply = "ok"
       THEN /\ nextFileId' = nextFileId + 1
            /\ HandleFileUploaded(nextFileId, m.file.name, Receive(m))
            /\ event' = [op |-> "uploadResponse", ok |-> TRUE, file |-> m.file,
                         file_id |-> nextFileId, file_name |-> m.file.name]
            /\ UNCHANGED <<nextSessionId, requests>>
       ELSE /\ IF m.live
                 THEN /\ uploadError' = ThrownMessage(reply, "Upload failed")
                      /\ isUploading' = FALSE
                      /\ UNCHANGED selectedFile
                 ELSE UNCHANGED uploadVars
            /\ inflight' = Receive(m)
            /\ event' = [op |-> "uploadResponse", ok |-> FALSE]
            /\ UNCHANGED <<appVars, generatorVars, quizVars, resultsVars, serverVars, crashed>>
  /\ UNCHANGED backendStatus

\* ------------------------------------------------------ QuestionGenerator
\* Question counts the user may request.
NumChoices == 1..MaxQuestions

\* The generate handler up to its request; its trigger is disabled while a
\* request of it is outstanding.
HandleGenerate(num) ==
  /\ ~crashed /\ state = "generate" /\ ~isGenerating
  /\ requests < MaxRequests
  /\ requests' = requests + 1
  /\ isGenerating' = TRUE
  /\ generateError' = NullStr
  /\ inflight' = Send([kind |-> "generate", from |-> "generate", live |-> TRUE,
                       file_id |-> fileId, num_questions |-> num])
  /\ event' = [op |-> "handleGenerate"]
  /\ UNCHANGED <<appVars, uploadVars, quizVars, resultsVars, nextFileId, nextSessionId, crashed>>
  /\ UNCHANGED backendStatus

\* Mutant: setSessionId is forgotten.
HandleQuestionsGeneratedKeepsSession(generatedQuestions, sid, B) ==
  /\ questions' = generatedQuestions
  /\ state' = "quiz"
  /\ error' = NullStr
  /\ UNCHANGED <<fileId, fileName, results, sessionId>>
  /\ UploadAfter("quiz")
  /\ GeneratorAfter("quiz")
  /\ QuizAfter("quiz")
  /\ ResultsAfter("quiz")
  /\ inflight' = InflightAfter(B, "quiz")
  /\ crashed' = RenderThrows("quiz", generatedQuestions, currentQuestion')

\* handleQuestionsGenerated(generatedQuestions, sessionId), with the
\* mounting it causes.
HandleQuestionsGenerated(generatedQuestions, sid, B) ==
  /\ questions' = generatedQuestions
  /\ sessionId' = sid
  /\ state' = "quiz"
  /\ error' = NullStr
  /\ UNCHANGED <<fileId, fileName, results>>
  /\ UploadAfter("quiz")
  /\ GeneratorAfter("quiz")
  /\ QuizAfter("quiz")
  /\ ResultsAfter("quiz")
  /\ inflight' = InflightAfter(B, "quiz")
  /\ crashed' = RenderThrows("quiz", generatedQuestions, currentQuestion')

\* Stale-response guard of the generate request: the document identity it
\* was issued for is still the active one.
GenerateIsCurrent(m) == m.file_id = fileId

\* The generate handler from the reply of its request on.
GenerateResponse(m, reply, n) ==
  /\ ~crashed
  /\ m \in Pending("generate")
  /\ n \in 0..m.num_questions
  /\ IF reply = "ok"
       THEN /\ nextSessionId' = nextSessionId + 1
            /\ UNCHANGED <<nextFileId, requests>>
            /\ event' = [op |-> "generateResponse", ok |-> TRUE,
                         applied |-> GenerateIsCurrent(m), from |-> state,
                         questions |-> QuestionSet(nextSessionId, n),
                         session_id |-> nextSessionId]
            /\ IF GenerateIsCurrent(m)
                 THEN HandleQuestionsGenerated(QuestionSet(nextSessionId, n),
                                               nextSessionId, Receive(m))
                 ELSE /\ inflight' = Receive(m)
                      /\ isGenerating' = IF m.live THEN FALSE ELSE isGenerating
                      /\ UNCHANGED <<appVars, uploadVars, generateError, quizVars,
                                     resultsVars, crashed>>
       ELSE /\ n = 0
            /\ IF m.live
                 THEN /\ generateError' = ThrownMessage(reply, "Question generation failed")
                      /\ isGenerating' = FALSE
                 ELSE UNCHANGED generatorVars
            /\ inflight' = Receive(m)
            /\ event' = [op |-> "generateResponse", ok |-> FALSE]
            /\ UNCHANGED <<appVars, uploadVars, quizVars, resultsVars, serverVars, crashed>>
  /\ UNCHANGED backendStatus

\* ---------------------------------------------------------- QuizInterface
\* The question on screen: questions[currentQuestion].
question == questions[currentQuestion + 1]

\* JavaScript numbers: the finite ones, and the IEEE results of a division
\* by zero.
Finite(n) == [value |-> n]
NaN == [nan |-> TRUE]
Infinity == [infinity |-> TRUE]

\* a / b * 100 on JavaScript numbers, the finite results in thousandths.
Percent(a, b) ==
  IF b = 0 THEN (IF a = 0 THEN NaN ELSE Infinity)
  ELSE Finite((a * 100 * Thousandths) \div b)

\* progress = (answeredCount / questions.length) * 100
progress == Percent(answeredCount(answers), Len(questions))

\* Mutant: the option buttons are dead while a request is outstanding.
HandleAnswerUnlessBusy(option) ==
  /\ ~crashed /\ state = "quiz"
  /\ ~exporting /\ Pending("submit") = {}
  /\ answers' = SetAnswer(answers, question, option)
  /\ event' = [op |-> "local"]
  /\ UNCHANGED <<appVars, uploadVars, generatorVars, currentQuestion, exporting,
                 resultsVars, inflight, serverVars, crashed>>
  /\ UNCHANGED backendStatus

\* handleAnswer(question.id, option)
HandleAnswer(option) ==
  /\ ~crashed /\ state = "quiz"
  /\ answers' = SetAnswer(answers, question, option)
  /\ event' = [op |-> "local"]
  /\ UNCHANGED <<appVars, uploadVars, generatorVars, currentQuestion, exporting,
                 resultsVars, inflight, serverVars, crashed>>
  /\ UNCHANGED backendStatus

\* Mutant: the Submit Quiz button at every cursor position.
SubmitShownAlways(cur, len) == TRUE

\* currentQuestion === questions.length - 1 ? Submit Quiz : Next
SubmitShown(cur, len) == cur = len - 1

\* Mutant: handleNext without its test.
NextCursorNoTest(cur, len) == cur + 1

\* The cursor handleNext leaves.
NextCursor(cur, len) == IF cur < len - 1 THEN cur + 1 ELSE cur

\* Mutant: handlePrevious without its test.
PreviousCursorNoTest(cur) == cur - 1

\* The cursor handlePrevious leaves.
PreviousCursor(cur) == IF cur > 0 THEN cur - 1 ELSE cur

\* Mutant: handleNext moves on only from an answered question.
CallHandleNextIfAnswered ==
  /\ ~crashed /\ state = "quiz"
  /\ currentQuestion' = IF Truthy(answers, question)
                          THEN NextCursor(currentQuestion, Len(questions))
                          ELSE currentQuestion
  /\ crashed' = RenderThrows("quiz", questions, currentQuestion')
  /\ event' = [op |-> "handleNext", before |-> currentQuestion, len |-> Len(questions)]
  /\ UNCHANGED <<appVars, uploadVars, generatorVars, answers, exporting, resultsVars,
                 inflight, serverVars>>
  /\ UNCHANGED backendStatus

\* handleNext() called at any cursor, with the render that follows.
CallHandleNext ==
  /\ ~crashed /\ state = "quiz"
  /\ currentQuestion' = NextCursor(currentQuestion, Len(questions))
  /\ crashed' = RenderThrows("quiz", questions, currentQuestion')
  /\ event' = [op |-> "handleNext", before |-> currentQuestion, len |-> Len(questions)]
  /\ UNCHANGED <<appVars, uploadVars, generatorVars, answers, exporting, resultsVars,
                 inflight, serverVars>>
  /\ UNCHANGED backendStatus

\* handlePrevious() called at any cursor, with the render that follows.
CallHandlePrevious ==
  /\ ~crashed /\ state = "quiz"
  /\ currentQuestion' = PreviousCursor(currentQuestion)
  /\ crashed' = RenderThrows("quiz", questions, currentQuestion')
  /\ event' = [op |-> "handlePrevious", before |-> currentQuestion, len |-> Len(questions)]
  /\ UNCHANGED <<appVars, uploadVars, generatorVars, answers, exporting, resultsVars,
                 inflight, serverVars>>
  /\ UNCHANGED backendStatus

\* The Next button, rendered where the cursor is not on the last question.
HandleNext ==
  /\ ~crashed /\ state = "quiz"
  /\ ~SubmitShown(currentQuestion, Len(questions))
  /\ currentQuestion' = NextCursor(currentQuestion, Len(questions))
  /\ event' = [op |-> "local"]
  /\ UNCHANGED <<appVars, uploadVars, generatorVars, answers, exporting, resultsVars,
                 inflight, serverVars, crashed>>
  /\ UNCHANGED backendStatus

\* The Previous button, disabled at the first question.
HandlePrevious ==
  /\ ~crashed /\ state = "quiz"
  /\ currentQuestion # 0
  /\ currentQuestion' = PreviousCursor(currentQuestion)
  /\ event' = [op |-> "local"]
  /\ UNCHANGED <<appVars, uploadVars, generatorVars, answers, exporting, resultsVars,
                 inflight, serverVars, crashed>>
  /\ UNCHANGED backendStatus

\* Mutant: one jump button too many (an off-by-one in the button row).
JumpTargetsOffByOne == 0..Len(questions)

\* Mutant: the button row starts at the second question.
JumpTargetsSkipFirst == 1..(Len(questions) - 1)

\* The jump buttons the Take screen renders: one per question.
JumpTargets == 0..(Len(questions) - 1)

\* A jump button: setCurrentQuestion(idx)
Jump(idx) ==
  /\ ~crashed /\ state = "quiz"
  /\ idx \in JumpTargets
  /\ currentQuestion' = idx
  /\ event' = [op |-> "jump", idx |-> idx]
  /\ UNCHANGED <<appVars, uploadVars, generatorVars, answers, exporting, resultsVars,
                 inflight, serverVars, crashed>>
  /\ UNCHANGED backendStatus

\* Mutant: the handler posts the answers of its first render (a stale closure).
SubmitRequestStaleClosure(sid, ans) ==
  [kind |-> "submit", from |-> "app", live |-> TRUE,
   session_id |-> sid, answers |-> JsonStringify(EmptyMap)]

\* The request apiService.submitQuiz(sessionId, answers) posts.
SubmitRequest(sid, ans) ==
  [kind |-> "submit", from |-> "app", live |-> TRUE,
   session_id |-> sid, answers |-> JsonStringify(ans)]

\* Mutant: a declined confirmation does not return (the `return` is lost).
HandleSubmitIgnoresDecline(confirm) ==
  /\ ~crashed /\ state = "quiz"
  /\ currentQuestion = Len(questions) - 1
  /\ LET unanswered == Unanswered(questions, answers)
         asked == Cardinality(unanswered) > 0
         sends == TRUE
     IN /\ asked \/ confirm
        /\ sends => requests < MaxRequests
        /\ requests' = IF sends THEN requests + 1 ELSE requests
        /\ inflight' = IF sends THEN Send(SubmitRequest(sessionId, answers)) ELSE inflight
        /\ event' = [op |-> "handleSubmit", asked |-> asked,
                     cited |-> Cardinality(unanswered),
                     confirm |-> asked /\ confirm, sent |-> sends]
  /\ UNCHANGED <<appVars, uploadVars, generatorVars, quizVars, resultsVars, nextFileId,
                 nextSessionId, crashed>>
  /\ UNCHANGED backendStatus

\* Mutant: the confirmation is asked from two unanswered questions on.
HandleSubmitAsksFromTwo(confirm) ==
  /\ ~crashed /\ state = "quiz"
  /\ currentQuestion = Len(questions) - 1
  /\ LET unanswered == Unanswered(questions, answers)
         asked == Cardinality(unanswered) > 1
         sends == ~(asked /\ ~confirm)
     IN /\ asked \/ confirm
        /\ sends => requests < MaxRequests
        /\ requests' = IF sends THEN requests + 1 ELSE requests
        /\ inflight' = IF sends THEN Send(SubmitRequest(sessionId, answers)) ELSE inflight
        /\ event' = [op |-> "handleSubmit", asked |-> asked,
                     cited |-> Cardinality(unanswered),
                     confirm |-> asked /\ confirm, sent |-> sends]
  /\ UNCHANGED <<appVars, uploadVars, generatorVars, quizVars, resultsVars, nextFileId,
                 nextSessionId, crashed>>
  /\ UNCHANGED backendStatus

\* handleSubmit, with the onSubmit = handleQuizSubmit it calls up to the
\* fetch of submitQuiz.  `confirm` is what window.confirm returns when asked.
HandleSubmit(confirm) ==
  /\ ~crashed /\ state = "quiz"
  /\ SubmitShown(currentQuestion, Len(questions))
  /\ LET unanswered == Unanswered(questions, answers)
         asked == Cardinality(unanswered) > 0
         sends == ~(asked /\ ~confirm)
     IN /\ asked \/ confirm
        /\ sends => requests < MaxRequests
        /\ requests' = IF sends THEN requests + 1 ELSE requests
        /\ inflight' = IF sends THEN Send(SubmitRequest(sessionId, answers)) ELSE inflight
        /\ event' = [op |-> "handleSubmit", asked |-> asked,
                     cited |-> Cardinality(unanswered),
                     confirm |-> asked /\ confirm, sent |-> sends]
  /\ UNCHANGED <<appVars, uploadVars, generatorVars, quizVars, resultsVars, nextFileId,
                 nextSessionId, crashed>>
  /\ UNCHANGED backendStatus

\* Replies of the export service: a 2xx with the document, a non-2xx, and a
\* failed fetch.
ExportReplies == {"ok", "notOk", "network"}

\* The FormData an export control posts to /api/export.
ExportRequest(comp, sid, exportType, format) ==
  [kind |-> "export", from |-> comp, live |-> TRUE, session_id |-> sid,
   export_type |-> exportType, file_format |-> format]

\* The Export Questions button: disabled={exporting}.
ExportQuestionsEnabled == ~exporting

\* handleExportQuestions("pdf") up to its fetch.
HandleExportQuestions(format) ==
  /\ ~crashed /\ state = "quiz"
  /\ ExportQuestionsEnabled
  /\ exporting' = TRUE
  /\ inflight' = Send(ExportRequest("quiz", sessionId, "questions_only", format))
  /\ event' = [op |-> "handleExportQuestions"]
  /\ UNCHANGED <<appVars, uploadVars, generatorVars, currentQuestion, answers, resultsVars,
                 serverVars, crashed>>
  /\ UNCHANGED backendStatus

\* The alert handleExportQuestions raises per reply, NullStr for none.
ExportQuestionsAlert(reply) ==
  CASE reply = "ok" -> NullStr
    [] reply = "notOk" -> "Export failed!"
    [] OTHER -> "Error exporting questions."

\* Mutant: setExporting(false) sits at the end of the try block, not in finally.
ExportingAfterNoFinally(m, reply) == IF m.live /\ reply = "ok" THEN FALSE ELSE exporting

\* finally { setExporting(false) }, which reaches the state of the
\* component that issued the request while it is mounted.
ExportingAfter(m, reply) == IF m.live THEN FALSE ELSE exporting

\* handleExportQuestions from the reply of its fetch on.
ExportQuestionsResponse(m, reply) ==
  /\ ~crashed
  /\ m \in Pending("export") /\ m.from = "quiz"
  /\ exporting' = ExportingAfter(m, reply)
  /\ inflight' = Receive(m)
  /\ event' = [op |-> "exportResponse", from |-> "quiz", live |-> m.live,
               ok |-> (reply = "ok"), alert |-> ExportQuestionsAlert(reply)]
  /\ UNCHANGED <<appVars, uploadVars, generatorVars, currentQuestion, answers, resultsVars,
                 serverVars, crashed>>
  /\ UNCHANGED backendStatus

\* The percentage the scoring service derives, in thousandths:
\* correct / total * 100, within [0, 100].
Percentage(correct, total) ==
  IF total = 0 THEN 0 ELSE (correct * 100 * Thousandths) \div total

\* The count of incorrect answers the scoring service derives.
Incorrect(correct, total) == total - correct

\* QuizResult values the scoring service returns for a session.
QuizResults(sid) ==
  { [session_id |-> sid, total_questions |-> p[1], correct_answers |-> p[2],
     incorrect_answers |-> Incorrect(p[2], p[1]),
     percentage |-> Percentage(p[2], p[1])] :
       p \in {q \in (0..MaxQuestions) \X (0..MaxQuestions) : q[2] <= q[1]} }

\* Mutant: the 2xx branch returns { success: true } without the body.
SubmitQuizDropsData(reply, data) ==
  CASE reply \in {"ok", "okNoData"} ->
         [[success |-> TRUE, data |-> data, error |-> NullStr] EXCEPT !.data = NullObj]
    [] OTHER -> [success |-> FALSE, data |-> NullObj,
                 error |-> ThrownMessage(reply, "Quiz submission failed")]

\* Mutant: the 2xx branch takes the fraction correct / total for the
\* percentage and scales it again.
SubmitQuizRescales(reply, data) ==
  CASE reply \in {"ok", "okNoData"} ->
         [success |-> TRUE,
          data |-> IF reply = "ok" THEN [data EXCEPT !.percentage = @ * 100] ELSE NullObj,
          error |-> NullStr]
    [] OTHER -> [success |-> FALSE, data |-> NullObj,
                 error |-> ThrownMessage(reply, "Quiz submission failed")]

\* The ApiResponse apiService.submitQuiz resolves to.
SubmitQuiz(reply, data) ==
  CASE reply \in {"ok", "okNoData"} ->
         [success |-> TRUE,
          data |-> IF reply = "ok" THEN data ELSE NullObj,
          error |-> NullStr]
    [] OTHER -> [success |-> FALSE, data |-> NullObj,
                 error |-> ThrownMessage(reply, "Quiz submission failed")]

\* Replies an apiService call may meet: those of Replies, and a non-2xx
\* whose body is not JSON.
ApiReplies == Replies \cup {"badBody"}

\* The value an apiService call of the ApiResponse kind resolves to:
\* { success: true, data } or { success: false, error }.
ApiResponse(reply, data, fallback) ==
  CASE reply \in {"ok", "okNoData"} ->
         [success |-> TRUE,
          data |-> IF reply = "ok" THEN data ELSE NullObj,
          error |-> NullStr]
    [] OTHER -> [success |-> FALSE, data |-> NullObj,
                 error |-> ThrownMessage(reply, fallback)]

\* apiService.uploadFile(file)
UploadFile(reply, data) == ApiResponse(reply, data, "Upload failed")

\* apiService.generateQuestions(fileId, numQuestions)
GenerateQuestions(reply, data) == ApiResponse(reply, data, "Question generation failed")

\* The Blob of an exported document.
Blob == [blob |-> TRUE]

\* apiService.exportResults(sessionId, exportType, fileFormat)
ExportResults(reply) == IF reply = "ok" THEN Blob ELSE NullObj

\* Mutant: setError(response.error) without the fallback string.
SubmitErrorMessageNoFallback(response) == response.error

\* response.error || 'Failed to submit quiz'
SubmitErrorMessage(response) ==
  IF response.error \notin {NullStr, ""} THEN response.error ELSE "Failed to submit quiz"

\* Mutant: the success test without its `&& response.data`.
SubmitSucceededAnyBody(response) == response.success

\* response.success && response.data
SubmitSucceeded(response) == response.success /\ response.data # NullObj

\* Mutant: the failure branch mounts the Take screen anew.
SubmitResponseRemounts(m, reply, data) ==
  /\ ~crashed
  /\ m \in Pending("submit")
  /\ data \in (IF reply = "ok" THEN QuizResults(m.session_id) ELSE {NullObj})
  /\ LET response == SubmitQuiz(reply, data)
     IN IF SubmitSucceeded(response)
          THEN /\ results' = response.data
               /\ state' = "results"
               /\ error' = NullStr
               /\ UNCHANGED <<fileId, fileName, questions, sessionId>>
               /\ UploadAfter("results")
               /\ GeneratorAfter("results")
               /\ QuizAfter("results")
               /\ ResultsAfter("results")
               /\ inflight' = InflightAfter(Receive(m), "results")
          ELSE /\ error' = SubmitErrorMessage(response)
               /\ inflight' = Receive(m)
               /\ QuizInit
               /\ UNCHANGED <<state, fileId, fileName, questions, sessionId, results,
                              uploadVars, generatorVars, resultsVars>>
  /\ event' = [op |-> "submitResponse", ok |-> (reply = "ok"), from |-> state,
               session_id |-> m.session_id, data |-> data]
  /\ UNCHANGED <<serverVars, crashed>>
  /\ UNCHANGED backendStatus

\* handleQuizSubmit from the reply of submitQuiz on.
SubmitResponse(m, reply, data) ==
  /\ ~crashed
  /\ m \in Pending("submit")
  /\ data \in (IF reply = "ok" THEN QuizResults(m.session_id) ELSE {NullObj})
  /\ LET response == SubmitQuiz(reply, data)
     IN IF SubmitSucceeded(response)
          THEN /\ results' = response.data
               /\ state' = "results"
               /\ error' = NullStr
               /\ UNCHANGED <<fileId, fileName, questions, sessionId>>
               /\ UploadAfter("results")
               /\ GeneratorAfter("results")
               /\ QuizAfter("results")
               /\ ResultsAfter("results")
               /\ inflight' = InflightAfter(Receive(m), "results")
          ELSE /\ error' = SubmitErrorMessage(response)
               /\ inflight' = Receive(m)
               /\ UNCHANGED <<state, fileId, fileName, questions, sessionId, results,
                              uploadVars, generatorVars, quizVars, resultsVars>>
  /\ event' = [op |-> "submitResponse", ok |-> (reply = "ok"), from |-> state,
               session_id |-> m.session_id, data |-> data]
  /\ UNCHANGED <<serverVars, crashed>>
  /\ UNCHANGED backendStatus

\* --------------------------------------------------------- ResultsDisplay
\* The formats of the two export buttons of the Results screen.
ExportFormats == {"pdf", "docx"}

\* Mutant: the S band starts above 93 (> for >=).
getGradeStrictS(percentage) ==
  IF percentage > 93 * Thousandths
    THEN [grade |-> "S", color |-> "text-green-600", bg |-> "bg-green-50"]
  ELSE IF percentage >= 85 * Thousandths
    THEN [grade |-> "A", color |-> "text-blue-600", bg |-> "bg-blue-50"]
  ELSE IF percentage >= 75 * Thousandths
    THEN [grade |-> "B", color |-> "text-yellow-600", bg |-> "bg-yellow-50"]
  ELSE IF percentage >= 60 * Thousandths
    THEN [grade |-> "C", color |-> "text-orange-600", bg |-> "bg-orange-50"]
  ELSE IF percentage >= 35 * Thousandths
    THEN [grade |-> "D", color |-> "text-orange-600", bg |-> "bg-orange-50"]
  ELSE [grade |-> "F", color |-> "text-red-600", bg |-> "bg-red-50"]

\* getGrade(), of the percentage prop.
getGrade(percentage) ==
  IF percentage >= 93 * Thousandths
    THEN [grade |-> "S", color |-> "text-green-600", bg |-> "bg-green-50"]
  ELSE IF percentage >= 85 * Thousandths
    THEN [grade |-> "A", color |-> "text-blue-600", bg |-> "bg-blue-50"]
  ELSE IF percentage >= 75 * Thousandths
    THEN [grade |-> "B", color |-> "text-yellow-600", bg |-> "bg-yellow-50"]
  ELSE IF percentage >= 60 * Thousandths
    THEN [grade |-> "C", color |-> "text-orange-600", bg |-> "bg-orange-50"]
  ELSE IF percentage >= 35 * Thousandths
    THEN [grade |-> "D", color |-> "text-orange-600", bg |-> "bg-orange-50"]
  ELSE [grade |-> "F", color |-> "text-red-600", bg |-> "bg-red-50"]

\* The render of ResultsDisplay: gradeInfo = getGrade(), shown on screen.
RenderGrade ==
  /\ ~crashed /\ state = "results" /\ results # NullObj
  /\ event' = [op |-> "getGrade", percentage |-> results.percentage,
               gradeInfo |-> getGrade(results.percentage)]
  /\ UNCHANGED <<appVars, uploadVars, generatorVars, quizVars, resultsVars, inflight,
                 serverVars, crashed>>
  /\ UNCHANGED backendStatus

\* handleExport('results_with_answers', format) up to its fetch; both
\* buttons carry disabled={isExporting}.
HandleExport(exportType, format) ==
  /\ ~crashed /\ state = "results" /\ results # NullObj
  /\ ~isExporting
  /\ isExporting' = TRUE
  /\ inflight' = Send(ExportRequest("results", sessionId, exportType, format))
  /\ event' = [op |-> "handleExport"]
  /\ UNCHANGED <<appVars, uploadVars, generatorVars, quizVars, expandedQuestion,
                 serverVars, crashed>>
  /\ UNCHANGED backendStatus

\* The alert handleExport raises per reply, NullStr for none.
ExportAlert(reply) ==
  IF reply = "ok" THEN NullStr ELSE "Export failed. Please try again."

\* handleExport from the reply of its fetch on.
ExportResponse(m, reply) ==
  /\ ~crashed
  /\ m \in Pending("export") /\ m.from = "results"
  /\ isExporting' = IF m.live THEN FALSE ELSE isExporting
  /\ inflight' = Receive(m)
  /\ event' = [op |-> "exportResponse", from |-> "results", live |-> m.live,
               ok |-> (reply = "ok"), alert |-> ExportAlert(reply)]
  /\ UNCHANGED <<appVars, uploadVars, generatorVars, quizVars, expandedQuestion,
                 serverVars, crashed>>
  /\ UNCHANGED backendStatus

\* The ids of the ResultItems of a QuizResult: one per question of its
\* session.
ResultIds(r) == {<<r.session_id, i>> : i \in 1..r.total_questions}

\* Mutant: the header button always expands.
ToggleExpandedNoCollapse(expanded, id) == id

\* expandedQuestion === result.question_id ? null : result.question_id
ToggleExpanded(expanded, id) == IF expanded = id THEN NullQuestion ELSE id

\* The header button of a ResultItem.
Toggle(id) ==
  /\ ~crashed /\ state = "results" /\ results # NullObj
  /\ id \in ResultIds(results)
  /\ expandedQuestion' = ToggleExpanded(expandedQuestion, id)
  /\ event' = [op |-> "toggle", question_id |-> id]
  /\ UNCHANGED <<appVars, uploadVars, generatorVars, quizVars, isExporting, inflight,
                 serverVars, crashed>>
  /\ UNCHANGED backendStatus

\* The ResultItems whose detail is rendered:
\* expandedQuestion === result.question_id.
ExpandedItems == {id \in ResultIds(results) : expandedQuestion = id}

\* The user_answer values of a ResultItem: a label, or '' for a question
\* left unanswered.
UserAnswers == Options \cup {""}

\* Mutant: the wrong-pick icon without its !isCorrect.
OptionViewCrossOnPick(result, option) ==
  LET isUserAnswer == result.user_answer = option
      isCorrect == result.correct_answer = option
  IN [border |-> IF isCorrect THEN "green" ELSE IF isUserAnswer THEN "red" ELSE "gray",
      checkCircle |-> isCorrect,
      xCircle |-> isUserAnswer]

\* What the expanded ResultItem renders for one option label: the border
\* class and the two icons.
OptionView(result, option) ==
  LET isUserAnswer == result.user_answer = option
      isCorrect == result.correct_answer = option
  IN [border |-> IF isCorrect THEN "green" ELSE IF isUserAnswer THEN "red" ELSE "gray",
      checkCircle |-> isCorrect,
      xCircle |-> isUserAnswer /\ ~isCorrect]

\* The render of one option row of the expanded ResultItem.
RenderOption(i, option) ==
  /\ ~crashed /\ state = "results" /\ results # NullObj
  /\ i \in 1..Len(results.results)
  /\ expandedQuestion = results.results[i].question_id
  /\ event' = [op |-> "renderOption", result |-> results.results[i], option |-> option,
               view |-> OptionView(results.results[i], option)]
  /\ UNCHANGED <<appVars, uploadVars, generatorVars, quizVars, resultsVars, inflight,
                 serverVars, crashed>>
  /\ UNCHANGED backendStatus

\* -------------------------------------------------------------------- App
\* Replies to the health check: a 2xx, a non-2xx, and a failed fetch.
HealthReplies == {"ok", "notOk", "network"}

\* apiService.checkHealth(): response.ok, false when the fetch throws.
CheckHealth(reply) == IF reply = "ok" THEN "true" ELSE "false"

\* The banner "Backend Server Not Connected": backendStatus === false.
BackendBanner == backendStatus = "false"

\* checkBackendStatus from the reply of checkHealth on; the request is the
\* one the effect of the first render issued, outstanding while
\* backendStatus is null.
CheckBackendStatus(reply) ==
  /\ ~crashed /\ backendStatus = NullBool
  /\ backendStatus' = CheckHealth(reply)
  /\ event' = [op |-> "checkBackendStatus"]
  /\ UNCHANGED <<appVars, uploadVars, generatorVars, quizVars, resultsVars, inflight,
                 serverVars, crashed>>

\* Mutant: setResults(null) is forgotten.
HandleRestartKeepsResults ==
  /\ ~crashed /\ state # "upload"
  /\ fileId' = EmptyId
  /\ fileName' = EmptyName
  /\ questions' = << >>
  /\ sessionId' = EmptyId
  /\ UNCHANGED results
  /\ error' = NullStr
  /\ state' = "upload"
  /\ UploadAfter("upload")
  /\ GeneratorAfter("upload")
  /\ QuizAfter("upload")
  /\ ResultsAfter("upload")
  /\ inflight' = InflightAfter(inflight, "upload")
  /\ event' = [op |-> "handleRestart"]
  /\ UNCHANGED <<serverVars, crashed>>
  /\ UNCHANGED backendStatus

\* Mutant: setError(null) is forgotten.
HandleRestartKeepsError ==
  /\ ~crashed /\ state # "upload"
  /\ fileId' = EmptyId
  /\ fileName' = EmptyName
  /\ questions' = << >>
  /\ sessionId' = EmptyId
  /\ results' = NullObj
  /\ UNCHANGED error
  /\ state' = "upload"
  /\ UploadAfter("upload")
  /\ GeneratorAfter("upload")
  /\ QuizAfter("upload")
  /\ ResultsAfter("upload")
  /\ inflight' = InflightAfter(inflight, "upload")
  /\ event' = [op |-> "handleRestart"]
  /\ UNCHANGED <<serverVars, crashed>>
  /\ UNCHANGED backendStatus

\* handleRestart: the "Start New Quiz" buttons, rendered outside the Upload phase.
HandleRestart ==
  /\ ~crashed /\ state # "upload"
  /\ fileId' = EmptyId
  /\ fileName' = EmptyName
  /\ questions' = << >>
  /\ sessionId' = EmptyId
  /\ results' = NullObj
  /\ error' = NullStr
  /\ state' = "upload"
  /\ UploadAfter("upload")
  /\ GeneratorAfter("upload")
  /\ QuizAfter("upload")
  /\ ResultsAfter("upload")
  /\ inflight' = InflightAfter(inflight, "upload")
  /\ event' = [op |-> "handleRestart"]
  /\ UNCHANGED <<serverVars, crashed>>
  /\ UNCHANGED backendStatus

\* The x of the error banner: setError(null)
DismissError ==
  /\ ~crashed /\ error # NullStr
  /\ error' = NullStr
  /\ event' = [op |-> "dismissError"]
  /\ UNCHANGED <<state, fileId, fileName, questions, sessionId, results, uploadVars,
                 generatorVars, quizVars, resultsVars, inflight, serverVars, crashed>>
  /\ UNCHANGED backendStatus

Next ==
  \/ \E file \in Files : ValidateAndSetFile(file)
  \/ CancelFile
  \/ HandleUpload
  \/ \E m \in Pending("upload"), reply \in Replies : UploadResponse(m, reply)
  \/ \E num \in NumChoices : HandleGenerate(num)
  \/ \E m \in Pending("generate"), reply \in Replies, n \in 0..MaxQuestions :
       GenerateResponse(m, reply, n)
  \/ \E option \in Picks : HandleAnswer(option)
  \/ HandleNext
  \/ HandlePrevious
  \/ \E idx \in 0..MaxQuestions : Jump(idx)
  \/ \E confirm \in BOOLEAN : HandleSubmit(confirm)
  \/ \E m \in Pending("submit"), reply \in Replies :
       \E data \in QuizResults(m.session_id) \cup {NullObj} : SubmitResponse(m, reply, data)
  \/ HandleRestart
  \/ DismissError

\* The lifecycle of the App from its first render: upload, generation, the
\* quiz, its submission and restart.
Spec == Init /\ [][Next]_vars

\* The start of a Take phase: the 2 MB a.pdf was uploaded as document 1 and
\* session 1 was generated for it with n questions.  `spent` is how much of
\* the request budget the run has used up.
TakeStart(spent) ==
  /\ state = "quiz"
  /\ fileId = 1
  /\ fileName = <<"a", ".", "p", "d", "f">>
  /\ \E n \in 1..MaxQuestions : questions = QuestionSet(1, n)
  /\ sessionId = 1
  /\ results = NullObj
  /\ error = NullStr
  /\ selectedFile = NullObj
  /\ isUploading = FALSE
  /\ uploadError = NullStr
  /\ isGenerating = FALSE
  /\ generateError = NullStr
  /\ currentQuestion = 0
  /\ answers = EmptyMap
  /\ exporting = FALSE
  /\ isExporting = FALSE
  /\ expandedQuestion = NullQuestion
  /\ backendStatus = NullBool
  /\ inflight = EmptyBag
  /\ nextFileId = 2
  /\ nextSessionId = 2
  /\ requests = spent
  /\ crashed = FALSE
  /\ event = [op |-> "init"]

\* The export controls of the Take and Results screens.
Exports ==
  \/ HandleExportQuestions("pdf")
  \/ \E m \in Pending("export"), reply \in ExportReplies : ExportQuestionsResponse(m, reply)
  \/ \E format \in ExportFormats : HandleExport("results_with_answers", format)
  \/ \E m \in Pending("export"), reply \in ExportReplies : ExportResponse(m, reply)

\* What the Take and Results screens offer.
NextTake ==
  \/ \E option \in Picks : HandleAnswer(option)
  \/ HandleNext
  \/ HandlePrevious
  \/ \E idx \in 0..MaxQuestions : Jump(idx)
  \/ \E confirm \in BOOLEAN : HandleSubmit(confirm)
  \/ \E m \in Pending("submit"), reply \in Replies :
       \E data \in QuizResults(m.session_id) \cup {NullObj} : SubmitResponse(m, reply, data)
  \/ Exports
  \/ HandleRestart
  \/ DismissError

\* The upload and the generate request that led to the Take phase.
SpentBeforeTake == 2

\* One quiz from the start of its Take phase up to its restart, exports
\* included.
SpecTake == TakeStart(SpentBeforeTake) /\ [][NextTake]_vars

\* The Take screen with handleNext and handlePrevious called at every
\* cursor, the ends included, where its buttons do not offer them.
NextNav ==
  \/ CallHandleNext
  \/ CallHandlePrevious
  \/ \E option \in Picks : HandleAnswer(option)
  \/ \E idx \in 0..MaxQuestions : Jump(idx)
  \/ HandleExportQuestions("pdf")
  \/ \E m \in Pending("export"), reply \in ExportReplies : ExportQuestionsResponse(m, reply)

SpecNav == TakeStart(SpentBeforeTake) /\ [][NextNav]_vars

\* Percentages the scoring service may return, in thousandths: every half
\* percent from 0 to 100 and the thousandths next to each.
Percentages ==
  {p \in 0..(100 * Thousandths) : p % 500 \in {0, 1, 499}}

\* The Results phase of session 1 holding the QuizResult r: the request
\* budget is used up.
ResultsStart(r) ==
  /\ state = "results"
  /\ fileId = 1
  /\ fileName = <<"a", ".", "p", "d", "f">>
  /\ questions = QuestionSet(1, r.total_questions)
  /\ sessionId = 1
  /\ results = r
  /\ error = NullStr
  /\ selectedFile = NullObj
  /\ isUploading = FALSE
  /\ uploadError = NullStr
  /\ isGenerating = FALSE
  /\ generateError = NullStr
  /\ currentQuestion = 0
  /\ answers = EmptyMap
  /\ exporting = FALSE
  /\ isExporting = FALSE
  /\ expandedQuestion = NullQuestion
  /\ backendStatus = NullBool
  /\ inflight = EmptyBag
  /\ nextFileId = 2
  /\ nextSessionId = 2
  /\ requests = MaxRequests
  /\ crashed = FALSE
  /\ event = [op |-> "init"]

\* The Results phase with a QuizResult of some percentage.
GradeInit ==
  \E p \in Percentages :
    ResultsStart([session_id |-> 1, total_questions |-> 1, correct_answers |-> 0,
                  incorrect_answers |-> 1, percentage |-> p])

\* getGrade applied to each percentage.
SpecGrade == GradeInit /\ [][RenderGrade]_vars

\* Everything the App offers, exports included.
NextAll == Next \/ Exports

\* The lifecycle of the App from its first render, exports included.
SpecLife == Init /\ [][NextAll]_vars

\* The Results phase with a QuizResult of one question at least.
ReviewInit ==
  \E r \in QuizResults(1) : r.total_questions > 0 /\ ResultsStart(r)

\* The Take phase with the budget for a second submit: answering, stepping
\* through the questions, submitting and the replies.
NextRetry ==
  \/ \E option \in Picks : HandleAnswer(option)
  \/ HandleNext
  \/ HandlePrevious
  \/ \E confirm \in BOOLEAN : HandleSubmit(confirm)
  \/ \E m \in Pending("submit"), reply \in Replies :
       \E data \in QuizResults(m.session_id) \cup {NullObj} : SubmitResponse(m, reply, data)

SpecRetry == TakeStart(SpentBeforeTake - 1) /\ [][NextRetry]_vars

\* The 2xx body the service returns to a call of an apiService method.
ApiBody(fn, args) ==
  CASE fn = "uploadFile" -> [file_id |-> 1, file_name |-> args[1].name]
    [] fn = "generateQuestions" -> [questions |-> QuestionSet(1, args[2])]
    [] fn = "submitQuiz" ->
         CHOOSE r \in QuizResults(args[1]) :
           r.total_questions = MaxQuestions /\ r.correct_answers = Cardinality(args[2])

\* The value the promise of an apiService method resolves to.
ApiResult(fn, args, reply) ==
  CASE fn = "uploadFile" -> UploadFile(reply, ApiBody(fn, args))
    [] fn = "generateQuestions" -> GenerateQuestions(reply, ApiBody(fn, args))
    [] fn = "submitQuiz" -> SubmitQuiz(reply, ApiBody(fn, args))
    [] fn = "exportResults" -> ExportResults(reply)
    [] fn = "checkHealth" -> CheckHealth(reply)

\* One call of an apiService method with its arguments, up to the value
\* its promise resolves to.
ApiCall(fn, args, reply) ==
  /\ ~crashed
  /\ event' = [op |-> "apiCall", fn |-> fn, args |-> args, reply |-> reply,
               result |-> ApiResult(fn, args, reply)]
  /\ UNCHANGED <<appVars, uploadVars, generatorVars, quizVars, resultsVars, inflight,
                 serverVars, crashed>>
  /\ UNCHANGED backendStatus

\* The calls of the apiService methods, each with every reply.
NextApi ==
  \/ \E file \in Files, reply \in ApiReplies : ApiCall("uploadFile", <<file>>, reply)
  \/ \E fid \in 1..MaxRequests, n \in 1..MaxQuestions, reply \in ApiReplies :
       ApiCall("generateQuestions", <<fid, n>>, reply)
  \/ \E sid \in 1..MaxRequests, picked \in SUBSET {<<<<1, 1>>, "A">>}, reply \in ApiReplies :
       ApiCall("submitQuiz", <<sid, picked>>, reply)
  \/ \E sid \in 1..MaxRequests, format \in ExportFormats, reply \in ExportReplies :
       ApiCall("exportResults", <<sid, "results_with_answers", format>>, reply)
  \/ \E reply \in HealthReplies : ApiCall("checkHealth", << >>, reply)

SpecApi == Init /\ [][NextApi]_vars

\* The Results phase with a QuizResult of one question and its ResultItem.
ItemInit ==
  \E ua \in UserAnswers, ca \in Options :
    LET right == IF ua = ca THEN 1 ELSE 0
    IN ResultsStart([session_id |-> 1, total_questions |-> 1, correct_answers |-> right,
                     incorrect_answers |-> Incorrect(right, 1),
                     percentage |-> Percentage(right, 1),
                     results |-> << [question_id |-> <<1, 1>>, user_answer |-> ua,
                                     correct_answer |-> ca, is_correct |-> (ua = ca)] >>])

\* The review of one ResultItem: its header and its option rows.
NextItem ==
  \/ Toggle(<<1, 1>>)
  \/ \E option \in Options : RenderOption(1, option)

SpecItem == ItemInit /\ [][NextItem]_vars

\* What the Results screen offers: the review, the exports and restart.
NextReview ==
  \/ \E i \in 1..MaxQuestions : Toggle(<<sessionId, i>>)
  \/ \E format \in ExportFormats : HandleExport("results_with_answers", format)
  \/ \E m \in Pending("export"), reply \in ExportReplies : ExportResponse(m, reply)
  \/ HandleRestart

SpecReview == ReviewInit /\ [][NextReview]_vars

\* The same with the reply to the health check, which no other
\* specification delivers: backendStatus stays null in them.
NextHealth ==
  \/ NextAll
  \/ \E reply \in HealthReplies : CheckBackendStatus(reply)

SpecHealth == Init /\ [][NextHealth]_vars

\* A run from the start of a Take phase with the whole request budget still
\* to spend, so that a second submit or a second quiz fits in it.
SpecAll == TakeStart(0) /\ [][NextAll]_vars

\* ================================================================ claims
QuestionIds == {questions[i] : i \in 1..Len(questions)}

\* |questions| - |AnswerMap|
UnansweredCount == Len(questions) - Cardinality(DOMAIN answers)

\* C1: in the Take phase with a non-empty question list the cursor is an
\* index of the list, whatever next, previous and jump operations ran.
C1_CursorInRange ==
  (state = "quiz" /\ Len(questions) > 0) => currentQuestion \in 0..(Len(questions) - 1)

\* C1 witness: navigation has moved the cursor to the last of several questions.
C1_Witness ==
  /\ state = "quiz" /\ Len(questions) >= 2
  /\ currentQuestion = Len(questions) - 1
  /\ event.op = "local"

\* C2: every key of the AnswerMap is the identity of a question of the
\* current question set.
C2_AnswerKeysInQuestionSet == DOMAIN answers \subseteq QuestionIds

\* C2 witness: every question of a list of several is answered.
C2_Witness ==
  /\ state = "quiz" /\ Len(questions) >= 2
  /\ DOMAIN answers = QuestionIds

\* C3: restart yields the fully reset state.
C3_RestartResets ==
  event.op = "handleRestart" =>
    /\ state = "upload"
    /\ answers = EmptyMap
    /\ currentQuestion = 0
    /\ fileId = EmptyId /\ fileName = EmptyName
    /\ sessionId = EmptyId
    /\ questions = << >>
    /\ results = NullObj
    /\ error = NullStr

\* C3 witness: a restart after a session was created, with a request of that
\* session still outstanding.
C3_Witness ==
  /\ event.op = "handleRestart"
  /\ nextSessionId > 1
  /\ Pending("submit") # {}

\* C4 (as claimed): the reply to a submit request of a session that is no
\* longer the active one changes neither the phase, nor the QuizResult, nor
\* the error.
C4_StaleSubmitDiscarded ==
  [][(event'.op = "submitResponse" /\ event'.session_id # sessionId)
       => UNCHANGED <<state, results, error>>]_vars

\* C5 (as claimed): every phase change is Upload->Generate on upload
\* success, Generate->Take on generation success, Take->Results on submit
\* success, or any phase->Upload on restart.
C5_PhaseChanges ==
  [][state' # state =>
       \/ state = "upload" /\ state' = "generate" /\ event'.op = "uploadResponse"
       \/ state = "generate" /\ state' = "quiz" /\ event'.op = "generateResponse"
       \/ state = "quiz" /\ state' = "results" /\ event'.op = "submitResponse"
       \/ state' = "upload" /\ event'.op = "handleRestart"]_vars

\* C6: a submit with no question unanswered issues the scoring request
\* without a prompt; with a question unanswered no scoring request is issued
\* unless the user was prompted and confirmed.
C6_ConfirmationPolicy ==
  [][event'.op = "handleSubmit" =>
       LET issued == BagCardinality(inflight') = BagCardinality(inflight) + 1
       IN /\ UnansweredCount = 0 => (~event'.asked /\ issued)
          /\ (UnansweredCount > 0 /\ inflight' # inflight)
               => (event'.asked /\ event'.confirm)]_vars

\* C6 witness: a partial submit went out after a prompt that was confirmed.
C6_Witness ==
  /\ event.op = "handleSubmit" /\ event.sent
  /\ UnansweredCount > 0 /\ event.asked /\ event.confirm

\* C7: the count the confirmation prompt cites is |questions| - |AnswerMap|.
C7_CitedCount ==
  (event.op = "handleSubmit" /\ event.asked) => event.cited = UnansweredCount

\* C7 witness: a prompt for a partly answered list of several questions.
C7_Witness ==
  /\ event.op = "handleSubmit" /\ event.asked
  /\ Len(questions) >= 2 /\ answeredCount(answers) >= 1
  /\ event.cited = Len(questions) - answeredCount(answers)

\* C8: declining the confirmation leaves the phase at Take, the cursor, the
\* AnswerMap, the session identity and the error unchanged and issues no request.
C8_DeclineChangesNothing ==
  [][(event'.op = "handleSubmit" /\ event'.asked /\ ~event'.confirm) =>
       /\ state = "quiz" /\ state' = "quiz"
       /\ UNCHANGED <<currentQuestion, answers, sessionId, error, inflight, requests>>]_vars

\* C8 witness: a declined prompt with answers given and the cursor moved.
C8_Witness ==
  /\ event.op = "handleSubmit" /\ event.asked /\ ~event.confirm
  /\ answers # EmptyMap /\ currentQuestion > 0

\* C9: the scoring request a submit issues carries the active session
\* identity and exactly the AnswerMap of the moment of submission.
C9_RequestCarriesAnswers ==
  [][(event'.op = "handleSubmit" /\ event'.sent) =>
       \E m \in BagToSet(inflight') :
         /\ m.kind = "submit"
         /\ CopiesIn(m, inflight') = CopiesIn(m, inflight) + 1
         /\ m.session_id = sessionId
         /\ JsonParse(m.answers) = answers]_vars

\* C9 witness: a request carrying a non-empty AnswerMap is outstanding after a submit.
C9_Witness ==
  /\ event.op = "handleSubmit" /\ event.sent
  /\ answers # EmptyMap
  /\ \E m \in Pending("submit") : JsonParse(m.answers) = answers /\ m.session_id = sessionId

\* C10: the Generate->Take transition starts the Take phase with the cursor
\* at 0, the AnswerMap empty, and the question sequence and session identity
\* the generation delivered.
C10_TakeStartsFresh ==
  (event.op = "generateResponse" /\ event.ok /\ event.applied /\ event.from = "generate") =>
    /\ state = "quiz"
    /\ currentQuestion = 0
    /\ answers = EmptyMap
    /\ questions = event.questions
    /\ sessionId = event.session_id

\* C10 witness: a generation delivered several questions into the Take phase.
C10_Witness ==
  /\ event.op = "generateResponse" /\ event.ok /\ event.applied /\ event.from = "generate"
  /\ Len(questions) >= 2 /\ sessionId # EmptyId

\* C11: a successful reply to a submit of the Take phase, with the session
\* still the active one, puts the phase at Results holding exactly the
\* QuizResult of the reply, the error absent.
C11_SubmitSuccess ==
  (event.op = "submitResponse" /\ event.ok /\ event.from = "quiz"
     /\ event.session_id = sessionId) =>
    /\ state = "results"
    /\ results = event.data
    /\ error = NullStr

\* C11 witness: such a reply has arrived with a QuizResult of a non-empty quiz.
C11_Witness ==
  /\ event.op = "submitResponse" /\ event.ok /\ event.from = "quiz"
  /\ event.session_id = sessionId
  /\ event.data.total_questions > 0

\* C12: a failed reply to a submit of the Take phase leaves the phase at
\* Take and the QuizResult as absent as it was, surfaces an error message,
\* and does not crash.
C12_SubmitFailure ==
  [][(event'.op = "submitResponse" /\ ~event'.ok /\ state = "quiz"
        /\ event'.session_id = sessionId) =>
       /\ state' = "quiz"
       /\ results' = results
       /\ error' \notin {NullStr, ""}
       /\ ~crashed']_vars

\* C12 witness: a failed reply has arrived in the Take phase, with no
\* QuizResult held.
C12_Witness ==
  /\ event.op = "submitResponse" /\ ~event.ok /\ event.from = "quiz"
  /\ state = "quiz" /\ results = NullObj /\ error # NullStr

\* The extension of a file name: the text from its last '.' on, lower-cased,
\* and none when the name holds no '.'.
Extension(name) ==
  IF \E i \in 1..Len(name) : name[i] = "."
    THEN <<".">> \o ToLowerCase(SplitPop(name))
    ELSE << >>

\* A file the upload rules reject: extension outside the allow-list, or
\* larger than the maximum size.
Invalid(file) == Extension(file.name) \notin allowedTypes \/ file.size > MaxFileSize

\* C16: a file with an extension outside {.pdf, .docx, .txt} or above the
\* maximum size is rejected on selection: a validation error is set, the
\* selection, the requests and the phase stay as they were, and no upload
\* request ever carries such a file.
C16_InvalidFileRejected ==
  /\ [](\A m \in Pending("upload") : ~Invalid(m.file))
  /\ [][(event'.op = "validateAndSetFile" /\ Invalid(event'.file)) =>
          /\ uploadError' # NullStr
          /\ selectedFile' = selectedFile
          /\ inflight' = inflight
          /\ state' = "upload"]_vars

\* C17: a successful reply to an upload puts the phase at Generate with the
\* document identity and display name of the reply, the App error absent.
C17_UploadSuccess ==
  (event.op = "uploadResponse" /\ event.ok) =>
    /\ state = "generate"
    /\ fileId = event.file_id
    /\ fileName = event.file_name
    /\ error = NullStr

\* C17 witness: the upload of the 2 MB a.pdf has succeeded.
C17_Witness ==
  /\ event.op = "uploadResponse" /\ event.ok
  /\ ~Invalid(event.file) /\ event.file.size = 2 * MB
  /\ state = "generate" /\ fileId # EmptyId /\ fileName = event.file.name

\* The outstanding requests of a kind, copies counted.
CountPending(S) ==
  LET RECURSIVE Sum(_)
      Sum(T) == IF T = {} THEN 0
                ELSE LET m == CHOOSE x \in T : TRUE
                     IN CopiesIn(m, inflight) + Sum(T \ {m})
  IN Sum(S)

\* The outstanding export requests a screen has issued.
ExportsFrom(comp) == {m \in Pending("export") : m.from = comp}

\* C13: no two submit requests for the same session are outstanding at the
\* same time.
C13_SubmitSingleFlight ==
  \A sid \in {m.session_id : m \in Pending("submit")} :
    CountPending({m \in Pending("submit") : m.session_id = sid}) <= 1

\* C14: at most one export request of the Take screen and at most one of
\* the Results screen is outstanding at any time.
C14_ExportSingleFlight ==
  /\ CountPending(ExportsFrom("quiz")) <= 1
  /\ CountPending(ExportsFrom("results")) <= 1

\* C15: when an export request ends in a failure an alert is raised and the
\* exporting flag of the screen that issued it is reset; a flag is set only
\* while a request of its mounted screen is outstanding.
C15_ExportFailureRecovers ==
  /\ (event.op = "exportResponse" /\ ~event.ok) =>
       /\ event.alert # NullStr
       /\ event.live => (IF event.from = "quiz" THEN ~exporting ELSE ~isExporting)
  /\ exporting => \E m \in ExportsFrom("quiz") : m.live
  /\ isExporting => \E m \in ExportsFrom("results") : m.live

\* C15 witness: an export of the mounted Take screen has failed at the
\* network, the alert is up and the button is enabled again.
C15_Witness ==
  /\ event.op = "exportResponse" /\ ~event.ok /\ event.live /\ event.from = "quiz"
  /\ event.alert = "Error exporting questions."
  /\ state = "quiz" /\ ~exporting /\ ExportsFrom("quiz") = {}

\* The grade bands, closed below and open above: the grade of a percentage
\* is that of the highest lower threshold it reaches.
GradeBands ==
  { <<93 * Thousandths, 100 * Thousandths + 1, "S">>,
    <<85 * Thousandths, 93 * Thousandths, "A">>,
    <<75 * Thousandths, 85 * Thousandths, "B">>,
    <<60 * Thousandths, 75 * Thousandths, "C">>,
    <<35 * Thousandths, 60 * Thousandths, "D">>,
    <<0, 35 * Thousandths, "F">> }

\* The boundary values named by the grade mapping.
GradeExamples ==
  { <<93000, "S">>, <<92999, "A">>, <<85000, "A">>, <<60000, "C">>,
    <<59999, "D">>, <<35000, "D">>, <<34999, "F">> }

\* C18: the grade shown is the band of the percentage (>=93 S, >=85 A,
\* >=75 B, >=60 C, >=35 D, else F), and 93.0, 92.999, 85.0, 60.0, 59.999,
\* 35.0, 34.999 give S, A, A, C, D, D, F.
C18_GradeBands ==
  event.op = "getGrade" =>
    /\ \A b \in GradeBands :
         (b[1] <= event.percentage /\ event.percentage < b[2]) => event.gradeInfo.grade = b[3]
    /\ \A e \in GradeExamples :
         event.percentage = e[1] => event.gradeInfo.grade = e[2]

\* C18 witness: 92.999 has been graded A.
C18_Witness ==
  /\ event.op = "getGrade" /\ event.percentage = 92999
  /\ event.gradeInfo.grade = "A"

\* C19: handleNext moves the cursor up by exactly one unless it is on the
\* last index, where it changes nothing; it changes nothing but the cursor
\* and no render throws.
C19_Next ==
  [][event'.op = "handleNext" =>
       /\ currentQuestion' = IF currentQuestion # Len(questions) - 1
                               THEN currentQuestion + 1
                               ELSE currentQuestion
       /\ ~crashed'
       /\ UNCHANGED <<appVars, uploadVars, generatorVars, answers, exporting, resultsVars,
                      inflight>>]_vars

\* C19 witness: handleNext ran on the last of several questions and the
\* cursor is where it was.
C19_Witness ==
  /\ event.op = "handleNext" /\ event.len >= 2
  /\ event.before = event.len - 1
  /\ currentQuestion = event.before /\ ~crashed

\* C20: handlePrevious moves the cursor down by exactly one unless it is on
\* index 0, where it changes nothing; it changes nothing but the cursor.
C20_Previous ==
  [][event'.op = "handlePrevious" =>
       /\ currentQuestion' = IF currentQuestion # 0
                               THEN currentQuestion - 1
                               ELSE currentQuestion
       /\ ~crashed'
       /\ UNCHANGED <<appVars, uploadVars, generatorVars, answers, exporting, resultsVars,
                      inflight>>]_vars

\* C20 witness: handlePrevious ran on index 0 of several questions and the
\* cursor is still 0.
C20_Witness ==
  /\ event.op = "handlePrevious" /\ event.len >= 2
  /\ event.before = 0
  /\ currentQuestion = 0 /\ ~crashed

\* Indices a jump may be asked for: those of a longest list, and one beyond
\* at either end.
JumpInputs == (0 - 1)..(MaxQuestions + 1)

\* C21: a jump to an index of the question list is offered and sets the
\* cursor to that index; a jump to any other index is not offered, so the
\* cursor stays where it is.
C21_JumpTo ==
  /\ event.op = "jump" =>
       /\ event.idx \in 0..(Len(questions) - 1)
       /\ currentQuestion = event.idx
  /\ (state = "quiz" /\ ~crashed) =>
       \A idx \in JumpInputs :
         IF idx \in 0..(Len(questions) - 1)
           THEN ENABLED (Jump(idx) /\ currentQuestion' = idx)
           ELSE ~ENABLED Jump(idx)

\* C21 witness: a jump has put the cursor on the last of several questions.
C21_Witness ==
  /\ event.op = "jump" /\ Len(questions) >= 2
  /\ event.idx = Len(questions) - 1
  /\ currentQuestion = event.idx /\ state = "quiz"

\* The operations of the navigation controller.
NavOps == {"handleNext", "handlePrevious", "jump"}

\* Where a navigation operation puts the cursor, from the operation, the
\* cursor and the length of the list alone.
NavTarget(e, cur, len) ==
  CASE e.op = "handleNext" -> IF cur = len - 1 THEN cur ELSE cur + 1
    [] e.op = "handlePrevious" -> IF cur = 0 THEN cur ELSE cur - 1
    [] OTHER -> e.idx

\* C22: next, previous and jump leave the AnswerMap, the phase, the session
\* identity and the error as they were, and the cursor they leave depends
\* on the operation, the cursor and the list length only, whatever the
\* AnswerMap holds.
C22_NavigationPositional ==
  [][event'.op \in NavOps =>
       /\ UNCHANGED <<answers, state, sessionId, error>>
       /\ currentQuestion' = NavTarget(event', currentQuestion, Len(questions))]_vars

\* C22 witness: next has moved the cursor off an unanswered first question
\* onto an answered one.
C22_Witness ==
  /\ event.op = "handleNext" /\ event.before = 0 /\ currentQuestion = 1
  /\ DOMAIN answers = {questions[2]}

\* C23: selecting an option for the question on screen stores that option
\* for it, replacing what was stored, leaves every other entry and the
\* cursor as they were; the AnswerMap never holds more entries than there
\* are questions and every stored value is one of A, B, C, D.
C23_SetAnswer ==
  /\ [](/\ Cardinality(DOMAIN answers) <= Len(questions)
        /\ \A q \in DOMAIN answers : answers[q] \in Options)
  /\ [][\A o \in Picks :
          HandleAnswer(o) =>
            /\ DOMAIN answers' = DOMAIN answers \cup {question}
            /\ answers'[question] = o
            /\ \A q \in DOMAIN answers \ {question} : answers'[q] = answers[q]
            /\ currentQuestion' = currentQuestion]_vars

\* C23 witness: the first of two questions holds B and the second holds A,
\* each selected on its own screen.
C23_Witness ==
  /\ state = "quiz" /\ Len(questions) = 2
  /\ DOMAIN answers = QuestionIds
  /\ answers[questions[1]] = "B" /\ answers[questions[2]] = "A"

\* A step that made a successful transition: an upload, a generation or a
\* submit that succeeded and was applied, or a restart.
SuccessfulTransition(e) ==
  \/ e.op = "uploadResponse" /\ e.ok
  \/ e.op = "generateResponse" /\ e.ok /\ e.applied
  \/ e.op = "submitResponse" /\ e.ok
  \/ e.op = "handleRestart"

\* C24: the App error is absent right after every successful transition and
\* right after a dismissal, and a dismissal changes nothing but the error.
C24_ErrorCleared ==
  [][/\ SuccessfulTransition(event') => error' = NullStr
     /\ event'.op = "dismissError" =>
          /\ error' = NullStr
          /\ UNCHANGED <<state, fileId, fileName, questions, sessionId, results,
                         backendStatus, uploadVars, generatorVars, quizVars,
                         resultsVars, inflight, crashed>>]_vars

\* C24 witness: an error raised in the Take phase has been dismissed.
C24_Witness ==
  /\ event.op = "dismissError" /\ error = NullStr
  /\ state = "quiz" /\ results = NullObj

\* The handlers a user action runs that issue a request.
RequestOps ==
  {"handleUpload", "handleGenerate", "handleSubmit", "handleExportQuestions", "handleExport"}

\* The steps in which the reply to a request arrives.
ResponseOps == {"uploadResponse", "generateResponse", "submitResponse", "exportResponse"}

\* C25: a request is issued only by the handler of a user action; the step
\* in which a reply arrives issues none, so nothing is retried by itself;
\* and after a failed upload, submit or export the control that issued it
\* is available again.
C25_UserInitiated ==
  /\ [][/\ BagCardinality(inflight') > BagCardinality(inflight) => event'.op \in RequestOps
        /\ event'.op \in ResponseOps =>
             BagCardinality(inflight') = BagCardinality(inflight) - 1]_vars
  /\ []((event.op = "uploadResponse" /\ ~event.ok /\ requests < MaxRequests) =>
          ENABLED HandleUpload)
  /\ []((event.op = "submitResponse" /\ ~event.ok /\ event.from = "quiz"
           /\ currentQuestion = Len(questions) - 1 /\ requests < MaxRequests) =>
          ENABLED HandleSubmit(TRUE))
  /\ []((event.op = "exportResponse" /\ ~event.ok /\ event.live) =>
          IF event.from = "quiz"
            THEN ENABLED HandleExportQuestions("pdf")
            ELSE \A format \in ExportFormats :
                   ENABLED HandleExport("results_with_answers", format))

\* C25 witness: an upload has failed, no request is outstanding, and the
\* Upload button is there to be clicked again.
C25_Witness ==
  /\ event.op = "uploadResponse" /\ ~event.ok
  /\ inflight = EmptyBag /\ selectedFile # NullObj /\ ~isUploading
  /\ ENABLED HandleUpload

\* What the screens offer, read off the render: the Upload button, the
\* generate trigger, the Submit Quiz button on the last question, the two
\* export controls and the Start New Quiz buttons.
UploadOffered == state = "upload" /\ selectedFile # NullObj /\ ~isUploading
GenerateOffered == state = "generate" /\ ~isGenerating
SubmitOffered == state = "quiz" /\ currentQuestion = Len(questions) - 1
ExportQuestionsOffered == state = "quiz" /\ ~exporting
ExportResultsOffered == state = "results" /\ results # NullObj /\ ~isExporting
RestartOffered == state # "upload"

\* The request budget of the run is not used up.
Affordable == requests < MaxRequests

\* C26: whatever the health check reported, upload, generate, submit, the
\* exports and restart are enabled exactly where the screen offers them;
\* the reply to the health check changes backendStatus, which shows the
\* banner, and nothing else.
C26_HealthAdvisory ==
  /\ [](~crashed =>
          /\ ENABLED HandleUpload <=> (UploadOffered /\ Affordable)
          /\ \A num \in NumChoices :
               ENABLED HandleGenerate(num) <=> (GenerateOffered /\ Affordable)
          /\ ENABLED HandleSubmit(TRUE) <=> (SubmitOffered /\ Affordable)
          /\ ENABLED HandleExportQuestions("pdf") <=> ExportQuestionsOffered
          /\ \A format \in ExportFormats :
               ENABLED HandleExport("results_with_answers", format) <=> ExportResultsOffered
          /\ ENABLED HandleRestart <=> RestartOffered)
  /\ [][event'.op = "checkBackendStatus" =>
          UNCHANGED <<appVars, uploadVars, generatorVars, quizVars, resultsVars, inflight,
                      crashed>>]_vars

\* C26 witness: with the backend reported unreachable and the banner up, a
\* quiz was uploaded, generated and submitted, and an export of its
\* results has been issued.
C26_Witness ==
  /\ backendStatus = "false" /\ BackendBanner
  /\ state = "results" /\ event.op = "handleExport" /\ isExporting

\* C27: at most one ResultItem is expanded at any time; the header of an
\* item that is not the expanded one makes it the expanded one, the header
\* of the expanded item leaves none expanded.
C27_SingleExpansion ==
  /\ [](/\ expandedQuestion = NullQuestion \/ state = "results"
        /\ results # NullObj => Cardinality(ExpandedItems) <= 1)
  /\ [][event'.op = "toggle" =>
          expandedQuestion' = IF expandedQuestion = event'.question_id
                                THEN NullQuestion
                                ELSE event'.question_id]_vars

\* C27 witness: with the first item expanded, the header of the second was
\* clicked and the second is the one expanded.
C27_Witness ==
  /\ event.op = "toggle" /\ results.total_questions >= 2
  /\ event.question_id = <<sessionId, 2>>
  /\ ExpandedItems = {<<sessionId, 2>>}

TakeBusy ==
  /\ state = "quiz" /\ ~crashed
  /\ Pending("submit") # {} \/ Pending("export") # {}

\* C29: while a submit or an export request is outstanding, every option
\* button records its answer for the question on screen and leaves the other
\* answers alone, every jump button moves the cursor to its index, Next moves
\* it forward by one before the last question and Previous back by one after
\* the first; none of them touches the outstanding requests.
C29_LiveWhileBusy ==
  TakeBusy =>
    /\ \A option \in Picks :
         ENABLED (/\ HandleAnswer(option)
                  /\ answers'[question] = option
                  /\ \A k \in DOMAIN answers \ {question} : answers'[k] = answers[k]
                  /\ inflight' = inflight)
    /\ \A idx \in 0..(Len(questions) - 1) :
         ENABLED (Jump(idx) /\ currentQuestion' = idx /\ inflight' = inflight)
    /\ currentQuestion < Len(questions) - 1 =>
         ENABLED (HandleNext /\ currentQuestion' = currentQuestion + 1
                  /\ inflight' = inflight)
    /\ currentQuestion > 0 =>
         ENABLED (HandlePrevious /\ currentQuestion' = currentQuestion - 1
                  /\ inflight' = inflight)

\* C29 witness: with a submit and a live export request both outstanding, a
\* jump button was clicked and the cursor is on the second question.
C29_Witness ==
  /\ TakeBusy /\ Pending("submit") # {} /\ exporting
  /\ \E m \in Pending("export") : m.live /\ m.from = "quiz"
  /\ event.op = "jump" /\ currentQuestion = 1

\* C30: while the export the PDF button of the Results screen issued is
\* outstanding, the DOCX button is still enabled.
C30_ExportPerControl ==
  (/\ state = "results" /\ ~crashed /\ results # NullObj
   /\ \E m \in Pending("export") : m.live /\ m.from = "results" /\ m.file_format = "pdf")
    => ENABLED HandleExport("results_with_answers", "docx")

\* C31: a file whose name ends in an allowed extension is rejected with the
\* size error exactly when its size is above 10*1024*1024 bytes; at that
\* size or below it becomes the selected file with no error.
C31_SizeLimit ==
  (event.op = "validateAndSetFile" /\ Extension(event.file.name) \in allowedTypes) =>
    /\ (uploadError = SizeError) <=> (event.file.size > 10 * 1024 * 1024)
    /\ event.file.size <= 10 * 1024 * 1024 =>
         (selectedFile = event.file /\ uploadError = NullStr)
    /\ event.file.size > 10 * 1024 * 1024 => selectedFile # event.file

\* C31 witness: a file of exactly 10*1024*1024 bytes was selected and is
\* accepted.
C31_Witness ==
  /\ event.op = "validateAndSetFile" /\ event.file.size = 10 * 1024 * 1024
  /\ selectedFile = event.file /\ uploadError = NullStr

\* The text after the last '.' of a name, the whole name when it holds no
\* '.', lower-cased.
LastPart(name) ==
  LET k == CHOOSE i \in 0..Len(name) :
             /\ i = 0 \/ name[i] = "."
             /\ \A j \in (i + 1)..Len(name) : name[j] # "."
  IN ToLowerCase(SubSeq(name, k + 1, Len(name)))

TypeAccepted(name) ==
  LastPart(name) \in {<<"p", "d", "f">>, <<"d", "o", "c", "x">>, <<"t", "x", "t">>}

\* C39: the type check passes exactly for the files whose last part is pdf,
\* docx or txt; the file named pdf passes it and is selected, README and
\* a.exe get the type error and are not selected.
C39_TypeValidation ==
  event.op = "validateAndSetFile" =>
    /\ (uploadError # TypeError) <=> TypeAccepted(event.file.name)
    /\ event.file.name = <<"p", "d", "f">> =>
         (selectedFile = event.file /\ uploadError = NullStr)
    /\ event.file.name \in {<<"R", "E", "A", "D", "M", "E">>, <<"a", ".", "e", "x", "e">>} =>
         (uploadError = TypeError /\ selectedFile # event.file)

\* C39 witness: the file named pdf was selected and accepted.
C39_Witness ==
  /\ event.op = "validateAndSetFile" /\ event.file.name = <<"p", "d", "f">>
  /\ selectedFile = event.file /\ uploadError = NullStr

\* C32: on the Take screen the progress is answeredCount / totalQuestions
\* (as a percentage, in thousandths), it is 0 for an empty question set, and
\* the Take screen of an empty question set renders.
C32_ProgressDefined ==
  state = "quiz" =>
    IF Len(questions) = 0
      THEN progress = Finite(0) /\ ~crashed
      ELSE progress =
             Finite((Cardinality(DOMAIN answers) * 100 * Thousandths) \div Len(questions))

\* C33: in the expanded ResultItem, an option row is shown as correct (green
\* border, check icon) exactly when its label is the correct answer; it
\* carries the wrong-pick marker (red border, cross icon) exactly when its
\* label is the user's answer and not the correct one; with no answer given
\* the row of the correct answer is the only one marked.
C33_OptionRendering ==
  event.op = "renderOption" =>
    LET r == event.result
        o == event.option
        v == event.view
    IN /\ (v.checkCircle /\ v.border = "green") <=> (o = r.correct_answer)
       /\ v.checkCircle <=> (v.border = "green")
       /\ (v.xCircle /\ v.border = "red") <=> (o = r.user_answer /\ o # r.correct_answer)
       /\ v.xCircle <=> (v.border = "red")
       /\ r.user_answer \notin Options =>
            /\ ~v.xCircle /\ v.border # "red"
            /\ (v.border = "gray") <=> (o # r.correct_answer)

\* C33 witness: the row of the user's wrong pick was rendered with the cross.
C33_Witness ==
  /\ event.op = "renderOption" /\ event.option = event.result.user_answer
  /\ event.result.user_answer # event.result.correct_answer
  /\ event.view.xCircle /\ expandedQuestion = event.result.question_id

\* The fixed fallback string of each apiService method.
Fallback(fn) ==
  CASE fn = "uploadFile" -> "Upload failed"
    [] fn = "generateQuestions" -> "Question generation failed"
    [] fn = "submitQuiz" -> "Quiz submission failed"

\* C34: an apiService call that meets a non-2xx response or a failed fetch
\* resolves to success = false with a non-empty message, the detail of the
\* response when it has one and the method's fallback string otherwise;
\* exportResults resolves to null and checkHealth to false.
C34_FailureValues ==
  (event.op = "apiCall" /\ event.reply \notin {"ok", "okNoData"}) =>
    CASE event.fn = "exportResults" -> event.result = NullObj
      [] event.fn = "checkHealth" -> event.result = "false"
      [] OTHER ->
           /\ ~event.result.success
           /\ event.result.error \notin {NullStr, ""}
           /\ event.result.error =
                IF event.reply = "detail" THEN ServerDetail ELSE Fallback(event.fn)

\* C35: whenever the phase is Results a QuizResult is present.
C35_ResultsPresent == state = "results" => results # NullObj

\* C35 witness: the reply to a submit arrived after a restart, in the Upload
\* phase, and put the phase at Results with its QuizResult.
C35_Witness ==
  /\ event.op = "submitResponse" /\ event.ok /\ event.from = "upload"
  /\ state = "results" /\ results # NullObj

\* C36: at a cursor other than the last question index the Take screen
\* offers Next and no submit, and every step that issues a scoring request
\* starts in the Take phase with the cursor on the last question.
C36_SubmitAtLast ==
  /\ []((state = "quiz" /\ ~crashed /\ currentQuestion # Len(questions) - 1) =>
          /\ \A confirm \in BOOLEAN : ~ENABLED HandleSubmit(confirm)
          /\ ENABLED HandleNext)
  /\ [][CountPending(Pending("submit"))' > CountPending(Pending("submit")) =>
          /\ state = "quiz"
          /\ currentQuestion = Len(questions) - 1]_vars

\* C36 witness: a scoring request was issued from the last of two questions.
C36_Witness ==
  /\ event.op = "handleSubmit" /\ event.sent /\ Pending("submit") # {}
  /\ Len(questions) >= 2 /\ currentQuestion = Len(questions) - 1

\* The questions of the list that have an answer.
Answered == {i \in 1..Len(questions) : Truthy(answers, questions[i])}

\* C37: while the Take phase goes on with the same session and question
\* list, every answered question stays answered, no AnswerMap entry is
\* removed and answeredCount does not go down.
C37_AnswersMonotone ==
  [][(state = "quiz" /\ state' = "quiz" /\ sessionId' = sessionId
        /\ questions' = questions) =>
       /\ Answered \subseteq Answered'
       /\ DOMAIN answers \subseteq DOMAIN answers'
       /\ Cardinality(DOMAIN answers') >= Cardinality(DOMAIN answers)]_vars

\* C37 witness: both questions of a quiz are answered, the first one with
\* B, which is not the first pick offered.
C37_Witness ==
  /\ state = "quiz" /\ ~crashed /\ Len(questions) = 2
  /\ Answered = {1, 2} /\ answers[questions[1]] = "B"
  /\ currentQuestion = 1

\* C38: the step of a failed reply to a submit leaves the AnswerMap, the
\* cursor, the question list, the session identity and the phase as they
\* were; after it, on the last question of the Take phase, a submit that
\* carries the same answers for the same session can be issued again.
C38_FailedSubmitFrame ==
  /\ [][(event'.op = "submitResponse" /\ ~event'.ok) =>
          /\ answers' = answers
          /\ currentQuestion' = currentQuestion
          /\ questions' = questions
          /\ sessionId' = sessionId
          /\ state' = state]_vars
  /\ []((/\ event.op = "submitResponse" /\ ~event.ok
         /\ state = "quiz" /\ ~crashed
         /\ currentQuestion = Len(questions) - 1
         /\ requests < MaxRequests) =>
          ENABLED (/\ HandleSubmit(TRUE)
                   /\ \E m \in BagToSet(inflight') :
                        /\ m.kind = "submit"
                        /\ CopiesIn(m, inflight') = CopiesIn(m, inflight) + 1
                        /\ m.session_id = sessionId
                        /\ JsonParse(m.answers) = answers))

\* C38 witness: a submit of the second of two questions with an answer given
\* has failed, the Take screen still shows that question and holds that
\* answer, and the request budget allows a retry.
C38_Witness ==
  /\ event.op = "submitResponse" /\ ~event.ok /\ event.from = "quiz"
  /\ state = "quiz" /\ ~crashed /\ requests < MaxRequests
  /\ currentQuestion = 1 /\ answers # EmptyMap /\ event.session_id = sessionId

\* A file that passes both tests of the validation.
PassesValidation(file) == TypeAccepted(file.name) /\ file.size <= 10 * 1024 * 1024

\* C40: the selected file is always one that passed validation; a file that
\* fails validation while a file is selected sets the validation error and
\* leaves the selection as it was, still uploadable; within the Upload phase
\* the error goes away only in a step that selects a valid file or starts an
\* upload.
C40_SelectionRetained ==
  /\ [](selectedFile # NullObj => PassesValidation(selectedFile))
  /\ []((/\ event.op = "validateAndSetFile" /\ ~PassesValidation(event.file)
         /\ selectedFile # NullObj) =>
          /\ uploadError \in {TypeError, SizeError}
          /\ requests < MaxRequests =>
               ENABLED (/\ HandleUpload
                        /\ \E m \in BagToSet(inflight') :
                             m.kind = "upload" /\ m.file = selectedFile))
  /\ [][(event'.op = "validateAndSetFile" /\ ~PassesValidation(event'.file)) =>
          selectedFile' = selectedFile]_vars
  /\ [][(state = "upload" /\ state' = "upload"
           /\ uploadError # NullStr /\ uploadError' = NullStr) =>
          \/ event'.op = "handleUpload"
          \/ /\ event'.op = "validateAndSetFile" /\ PassesValidation(event'.file)
             /\ selectedFile' = event'.file]_vars

\* C40 witness: with B.TXT selected the 12 MB a.pdf was dropped: the size
\* error is shown and B.TXT is still the selection.
C40_Witness ==
  /\ event.op = "validateAndSetFile" /\ event.file.size = 12 * MB
  /\ uploadError = SizeError
  /\ selectedFile # NullObj /\ selectedFile.name = <<"B", ".", "T", "X", "T">>

====
